---- MODULE Spec2Model ----
(***************************************************************************)
(* Model of the backend worker's store operations (functions/db.ts):       *)
(* deliverWebhook, createWebhookEvent, updateOrderStatus, getRetryDelay and *)
(* the reads getProcessorConfig, getOrder and getMerchantWebhookUrl, and of  *)
(* encrypt and decrypt (lib/crypto).                                         *)
(* Invocations interleave at the awaits of the handlers; each store        *)
(* statement is one atomic step.  Nullable columns and optional fields are  *)
(* sets: {} is null/undefined, {v} is the value v.                          *)
(***************************************************************************)
EXTENDS Integers, Sequences, FiniteSets, Bags, TLC

\* ------------------------------------------------------------------ bounds
MaxEvents == 1        \* webhook events that createWebhookEvent may insert
MaxInv == 2           \* deliverWebhook invocations that may be in flight at once
MaxInvocations == 5   \* deliverWebhook invocations started on stored events
MaxNow == 1           \* the clock runs over 0..MaxNow
MaxOrders == 1        \* rows of the orders table
MaxCalls == 2         \* updateOrderStatus invocations started
MaxAttempt == 30      \* getRetryDelay is applied to 1..MaxAttempt
MaxText == 2          \* characters of a text given to encrypt
MaxMerchants == 1     \* rows of the merchants table
MaxConfigs == 2       \* rows of the processor_configs table
MaxStored == 6        \* under the re-invoking caller the attempt counter is kept up to this

EventIds == 1..MaxEvents
MissingId == 0        \* an id no row ever has
OrderIds == 1..MaxOrders

\* HTTP status codes the merchant endpoint answers with
StatusCodes == {200, 204, 500}
\* messages of the errors fetch rejects with (network failure, 30 s timeout)
TransportMessages == {"fetch failed", "The operation was aborted due to timeout"}
\* message of the error a failing store call rejects with
StoreMessage == "Connection terminated unexpectedly"
\* order statuses callers pass to updateOrderStatus
Statuses == {"authorized", "captured", "failed"}
\* the orders another service has stored: amounts differ from order to order,
\* some orders already carry a processor order id
InitialOrder(o) ==
    [amount |-> 100 * o, status |-> "pending",
     processorOrderId |-> IF o % 2 = 0 THEN {"po_0"} ELSE {},
     updatedAt |-> {0}, externalId |-> o]
\* an optional string argument: undefined, the empty string, or a value
OptString(v) == {{}, {""}, {v}}

VARIABLES
    webhookEvents,  \* the webhook_events table: id -> row
    now,            \* the wall clock (Date.now())
    dw,             \* deliverWebhook invocations in flight: a bag of local states
    started,        \* per stored event: deliverWebhook invocations started so far
    overlapped,     \* per stored event: two of its invocations have run at once
    ret,            \* what the step just taken did for its invocation, if anything
    orders,         \* the orders table: id -> row
    transactions,   \* the transactions table: a set of rows
    uo,             \* updateOrderStatus invocations in flight: a set of local states
    calls,          \* updateOrderStatus invocations started so far
    applied,        \* the invocations whose update of the order has been executed
    crashed,        \* the invocations that died between two of their statements
    delayIn,        \* the attempts getRetryDelay was last applied to
    delayOut        \* the delays it returned for them

webhookVars == <<webhookEvents, dw, started, overlapped>>
ledgerVars == <<orders, transactions, uo, calls, applied, crashed>>
backoffVars == <<delayIn, delayOut>>

VARIABLES
    merchants,        \* the merchants table: id -> row
    processorConfigs, \* the processor_configs table: a set of rows
    sealed,           \* the last encrypt call: its text, the iv drawn, the envelope
    opened,           \* the last decrypt call: its input and how it ended
    request           \* the last POST deliverWebhook built: headers and body

lookupVars == <<merchants, processorConfigs>>
cryptoVars == <<sealed, opened>>
signVars == <<request>>
restVars == <<lookupVars, cryptoVars, signVars>>
vars == <<webhookVars, ledgerVars, backoffVars, restVars, now, ret>>

\* ------------------------------------------------------------------ schema
\* the inserted row with the attempt counter starting at 1
NewWebhookEvent_countsFromOne ==
    [status |-> "pending", attempts |-> 1, lastAttemptAt |-> {},
     nextRetryAt |-> {}, deliveredAt |-> {}]

\* webhook_events row as inserted by createWebhookEvent: status 'pending',
\* column defaults attempts 0 and null timestamps
NewWebhookEvent ==
    [status |-> "pending", attempts |-> 0, lastAttemptAt |-> {},
     nextRetryAt |-> {}, deliveredAt |-> {}]

\* db.update(table).set(values).where(eq(id)): a key whose value is undefined is
\* left out of the SET clause, so the column keeps its stored value; rows that do
\* not match stay as they are
UpdateSet(table, id, values) ==
    [k \in DOMAIN table |->
        IF k = id
        THEN [f \in DOMAIN table[k] |->
                 IF f \in DOMAIN values THEN values[f] ELSE table[k][f]]
        ELSE table[k]]

\* ------------------------------------------------------------------ getRetryDelay
baseDelay == 60 * 1000
maxDelay == 24 * 60 * 60 * 1000

RECURSIVE Pow2(_)
Pow2(n) == IF n <= 0 THEN 1 ELSE 2 * Pow2(n - 1)

\* getRetryDelay with the exponent off by one: 2^attempt
getRetryDelay_exponentOff(attempt) ==
    LET factor == Pow2(attempt)
    IN  IF factor <= maxDelay \div baseDelay
        THEN baseDelay * factor
        ELSE maxDelay

\* Math.min(baseDelay * 2^(attempt-1), maxDelay).  The product is a double in the
\* code and never overflows; here the comparison is made on the factor so that
\* the product is only formed when it is below maxDelay.
getRetryDelay(attempt) ==
    LET factor == Pow2(attempt - 1)
    IN  IF factor <= maxDelay \div baseDelay
        THEN baseDelay * factor
        ELSE maxDelay

\* ------------------------------------------------------------------ crypto
\* Strings the cipher handles are sequences of characters.  IV_LENGTH as in
\* the source; GCM's default tag length; the key getKey() derives, as one byte
IV_LENGTH == 16
TagLength == 16
Key == 41
\* tag lengths setAuthTag accepts for GCM
ValidTagLengths == {4, 8, 12, 13, 14, 15, 16}

\* characters of the texts encrypted: two of one byte in utf8, one of two bytes
Alphabet == {"{", "}", "e-acute"}
Utf8 == [ch \in Alphabet |->
            IF ch = "{" THEN <<123>> ELSE IF ch = "}" THEN <<125>> ELSE <<195, 169>>]
Texts == UNION {[1..n -> Alphabet] : n \in 0..MaxText}
\* the values randomBytes(IV_LENGTH) is drawn from
Ivs == {[j \in 1..IV_LENGTH |-> 0], [j \in 1..IV_LENGTH |-> 255],
        [j \in 1..IV_LENGTH |-> (17 * j) % 256]}

SumSeq(q) ==
    LET RECURSIVE S(_)
        S(i) == IF i > Len(q) THEN 0 ELSE q[i] + S(i + 1)
    IN  S(1)

\* the string as bytes, 'utf8'
Utf8Encode(text) ==
    LET RECURSIVE E(_)
        E(i) == IF i > Len(text) THEN <<>> ELSE Utf8[text[i]] \o E(i + 1)
    IN  E(1)

\* the bytes as a string, 'utf8'; bytes that do not encode a character of the
\* alphabet decode to "other"
Utf8Decode(bytes) ==
    LET RECURSIVE D(_)
        D(i) ==
            IF i > Len(bytes) THEN <<>>
            ELSE LET fit == {ch \in Alphabet :
                                /\ i + Len(Utf8[ch]) - 1 <= Len(bytes)
                                /\ SubSeq(bytes, i, i + Len(Utf8[ch]) - 1) = Utf8[ch]}
                 IN  IF fit = {} THEN <<"other">> \o D(i + 1)
                     ELSE LET ch == CHOOSE c \in fit : TRUE
                          IN  <<ch>> \o D(i + Len(Utf8[ch]))
    IN  D(1)

HexDigits ==
    <<"0", "1", "2", "3", "4", "5", "6", "7", "8", "9", "a", "b", "c", "d", "e", "f">>
IsHex(ch) == \E i \in 1..16 : HexDigits[i] = ch
HexValue(ch) == (CHOOSE i \in 1..16 : HexDigits[i] = ch) - 1

\* buffer.toString('hex'): two digits per byte
ToHex(bytes) ==
    [k \in 1..(2 * Len(bytes)) |->
        LET b == bytes[(k + 1) \div 2]
        IN  IF k % 2 = 1 THEN HexDigits[(b \div 16) + 1] ELSE HexDigits[(b % 16) + 1]]

\* Buffer.from(string, 'hex'): decodes pairs of digits and stops at the first
\* pair that is not two hex digits
FromHex(chars) ==
    LET RECURSIVE D(_)
        D(i) == IF i + 1 <= Len(chars) /\ IsHex(chars[i]) /\ IsHex(chars[i + 1])
                THEN <<16 * HexValue(chars[i]) + HexValue(chars[i + 1])>> \o D(i + 2)
                ELSE <<>>
    IN  D(1)

\* string.split(sep): the pieces between the separators, always at least one
Split(chars, sep) ==
    LET RECURSIVE P(_)
        P(q) == IF \A i \in 1..Len(q) : q[i] # sep THEN <<q>>
                ELSE LET i == CHOOSE j \in 1..Len(q) :
                                  q[j] = sep /\ \A k \in 1..(j - 1) : q[k] # sep
                     IN  <<SubSeq(q, 1, i - 1)>> \o P(SubSeq(q, i + 1, Len(q)))
    IN  P(chars)

\* aes-256-gcm under the key, with the block cipher left uninterpreted: a
\* keystream that depends on key, iv and position, and a tag that depends on
\* key, iv and ciphertext
Keystream(iv, i) == (Key + SumSeq(iv) + 7 * i) % 256
Cipher(iv, bytes) == [i \in 1..Len(bytes) |-> (bytes[i] + Keystream(iv, i)) % 256]
Decipher(iv, bytes) ==
    [i \in 1..Len(bytes) |-> (bytes[i] + 256 - Keystream(iv, i)) % 256]
AuthTag(iv, bytes) ==
    [j \in 1..TagLength |->
        (Key + j + 3 * SumSeq(iv) + Len(bytes)
         + SumSeq([i \in 1..Len(bytes) |-> (i + 1) * bytes[i]])) % 256]

\* the envelope with the tag joined last
encrypt_tagLast(text, iv) ==
    LET encrypted == Cipher(iv, Utf8Encode(text))
    IN  ToHex(iv) \o <<":">> \o ToHex(encrypted) \o <<":">> \o ToHex(AuthTag(iv, encrypted))

\* encrypt with the iv randomBytes returned: `${iv}:${authTag}:${encrypted}`, in hex
encrypt(text, iv) ==
    LET encrypted == Cipher(iv, Utf8Encode(text))
    IN  ToHex(iv) \o <<":">> \o ToHex(AuthTag(iv, encrypted)) \o <<":">> \o ToHex(encrypted)

Throws(name) == [thrown |-> {name}, text |-> {}]
Returns(text) == [thrown |-> {}, text |-> {text}]

\* decrypt: the first three pieces of the split are taken, further pieces are
\* dropped and missing pieces are undefined.  Buffer.from(undefined) and
\* update(undefined) throw a TypeError, as do createDecipheriv on an empty iv and
\* setAuthTag on a tag of a length GCM does not have; final() throws an Error
\* when the tag does not authenticate the ciphertext
decrypt(encryptedText) ==
    LET parts == Split(encryptedText, ":")
    IN  IF Len(parts) < 2 THEN Throws("TypeError")
        ELSE LET iv == FromHex(parts[1])
                 authTag == FromHex(parts[2])
             IN  IF Len(iv) = 0 THEN Throws("TypeError")
                 ELSE IF Len(authTag) \notin ValidTagLengths THEN Throws("TypeError")
                 ELSE IF Len(parts) < 3 THEN Throws("TypeError")
                 ELSE LET encrypted == FromHex(parts[3])
                      IN  IF authTag # SubSeq(AuthTag(iv, encrypted), 1, Len(authTag))
                          THEN Throws("Error")
                          ELSE Returns(Utf8Decode(Decipher(iv, encrypted)))

\* the strings decrypt is applied to: the envelope encrypt returned, the
\* envelope cut after its first and after its second piece, the envelope with
\* further pieces, with a piece in front, with a byte added to the ciphertext,
\* and strings without a separator
DecryptInputs(envelope) ==
    LET parts == Split(envelope, ":")
    IN  {envelope,
         parts[1],
         parts[1] \o <<":">> \o parts[2],
         envelope \o <<":">>,
         envelope \o <<":", "0", "0">>,
         envelope \o <<":", "0", "0", ":">>,
         <<":">> \o envelope,
         envelope \o <<"0", "0">>,
         <<>>,
         <<"n", "o">>}

\* ------------------------------------------------------------------ deliverWebhook
\* response.ok
Ok(status) == status >= 200 /\ status <= 299

Sum(f) ==
    LET RECURSIVE S(_)
        S(D) == IF D = {} THEN 0
                ELSE LET x == CHOOSE y \in D : TRUE IN f[x] + S(D \ {x})
    IN  S(DOMAIN f)

\* the merchants and processor configs another service may have stored
MerchantIds == 1..MaxMerchants
MissingMerchant == 0  \* a merchant id no row has
Processors == {"stripe", "razorpay"}
\* merchants rows: webhook_url and webhook_secret are nullable
MerchantRows ==
    [webhookUrl : OptString("https://merchant.example/hook"),
     webhookSecret : {{}, {"whsec_1"}}]
MerchantTables == UNION {[ids -> MerchantRows] : ids \in SUBSET MerchantIds}
\* stored credentials: an envelope of a JSON text, an envelope of a text that
\* is not JSON, and a string that is no envelope
Credentials ==
    {encrypt(<<"{", "}">>, [j \in 1..IV_LENGTH |-> 255]),
     encrypt(<<"}">>, [j \in 1..IV_LENGTH |-> 0]),
     <<"n", "o">>}
ConfigRows ==
    [merchantId : MerchantIds, processor : Processors,
     credentialsEncrypted : Credentials, testMode : {TRUE}]

\* the state after start-up, the merchants and processor_configs tables apart
InitWorker ==
    /\ webhookEvents = [e \in {} |-> 0]
    /\ now = 0
    /\ dw = EmptyBag
    /\ started = [e \in EventIds |-> 0]
    /\ overlapped = [e \in EventIds |-> FALSE]
    /\ ret = {}
    /\ orders = [o \in OrderIds |-> InitialOrder(o)]
    /\ transactions = {}
    /\ uo = {}
    /\ calls = 0
    /\ applied = {}
    /\ crashed = {}
    /\ delayIn = <<>>
    /\ delayOut = <<>>
    /\ sealed = {}
    /\ opened = {}
    /\ request = {}

Init ==
    /\ InitWorker
    /\ merchants = [m \in {} |-> 0]
    /\ processorConfigs = {}

\* the same with merchants and processor configs that another service has stored
InitLookup ==
    /\ InitWorker
    /\ merchants \in MerchantTables
    /\ processorConfigs \in
           {cs \in SUBSET ConfigRows :
               /\ Cardinality(cs) <= MaxConfigs
               /\ \A c \in cs : c.merchantId \in DOMAIN merchants}

\* time passes
Tick ==
    /\ now < MaxNow
    /\ now' = now + 1
    /\ ret' = {}
    /\ UNCHANGED <<webhookVars, ledgerVars, backoffVars, restVars>>

\* createWebhookEvent: insert a pending event under a fresh id (the store draws
\* the uuid) and return the id
createWebhookEvent(e) ==
    /\ e \notin DOMAIN webhookEvents
    /\ webhookEvents' = [k \in DOMAIN webhookEvents \cup {e} |->
                            IF k = e THEN NewWebhookEvent ELSE webhookEvents[k]]
    /\ ret' = {[op |-> "createWebhookEvent", thrown |-> FALSE, result |-> {e}]}
    /\ UNCHANGED <<now, dw, started, overlapped, ledgerVars, backoffVars, restVars>>

\* the select forgotten: every invocation counts from 0
StoredAttempts_ignored(e) == 0

\* event[0]?.attempts || 0
StoredAttempts(e) ==
    IF e \in DOMAIN webhookEvents THEN webhookEvents[e].attempts ELSE 0

\* deliverWebhook, up to the fetch: select the event, attempts = (stored || 0) + 1
deliverWebhook_read(e) ==
    /\ BagCardinality(dw) < MaxInv
    /\ e \in EventIds => Sum(started) < MaxInvocations
    /\ dw' = dw (+) SetToBag({[id |-> e, attempts |-> StoredAttempts(e) + 1]})
    /\ started' = IF e \in EventIds THEN [started EXCEPT ![e] = @ + 1] ELSE started
    /\ overlapped' = IF e \in EventIds /\ \E c \in BagToSet(dw) : c.id = e
                     THEN [overlapped EXCEPT ![e] = TRUE] ELSE overlapped
    /\ ret' = {}
    /\ UNCHANGED <<webhookEvents, now, ledgerVars, backoffVars, restVars>>

\* the try block writing no retry time after a non-2xx response
TryValues_noRetryTime(success, attempts, t) ==
    [status |-> IF success THEN "delivered" ELSE "pending",
     attempts |-> attempts,
     lastAttemptAt |-> {t}]
    @@ (IF success THEN [deliveredAt |-> {t}] ELSE <<>>)

\* the try block with the cap of the catch block: 'failed' from attempt 5 on
TryValues_capped(success, attempts, t) ==
    [status |-> IF success THEN "delivered"
                ELSE IF attempts >= 5 THEN "failed" ELSE "pending",
     attempts |-> attempts,
     lastAttemptAt |-> {t}]
    @@ (IF success THEN [deliveredAt |-> {t}]
                   ELSE [nextRetryAt |-> {t + getRetryDelay(attempts)}])

\* the values of the update in the try block
TryValues(success, attempts, t) ==
    [status |-> IF success THEN "delivered" ELSE "pending",
     attempts |-> attempts,
     lastAttemptAt |-> {t}]
    @@ (IF success THEN [deliveredAt |-> {t}]
                   ELSE [nextRetryAt |-> {t + getRetryDelay(attempts)}])

\* the catch block writing no attempt counter
CatchValues_dropsAttempts(attempts, t) ==
    [status |-> IF attempts >= 5 THEN "failed" ELSE "pending",
     lastAttemptAt |-> {t}]
    @@ (IF attempts >= 5 THEN <<>>
                         ELSE [nextRetryAt |-> {t + getRetryDelay(attempts)}])

\* the catch block with the cap one attempt early: attempts >= 4
CatchValues_capEarly(attempts, t) ==
    [status |-> IF attempts >= 4 THEN "failed" ELSE "pending",
     attempts |-> attempts,
     lastAttemptAt |-> {t}]
    @@ (IF attempts >= 4 THEN <<>>
                         ELSE [nextRetryAt |-> {t + getRetryDelay(attempts)}])

\* the catch block without the cap: always 'pending' with a retry time
CatchValues_neverFails(attempts, t) ==
    [status |-> "pending",
     attempts |-> attempts,
     lastAttemptAt |-> {t},
     nextRetryAt |-> {t + getRetryDelay(attempts)}]

\* the catch block with the cap one attempt late: attempts > 5
CatchValues_capLate(attempts, t) ==
    [status |-> IF attempts > 5 THEN "failed" ELSE "pending",
     attempts |-> attempts,
     lastAttemptAt |-> {t}]
    @@ (IF attempts > 5 THEN <<>>
                        ELSE [nextRetryAt |-> {t + getRetryDelay(attempts)}])

\* the values of the update in the catch block
CatchValues(attempts, t) ==
    [status |-> IF attempts >= 5 THEN "failed" ELSE "pending",
     attempts |-> attempts,
     lastAttemptAt |-> {t}]
    @@ (IF attempts >= 5 THEN <<>>
                         ELSE [nextRetryAt |-> {t + getRetryDelay(attempts)}])

\* the result returned from the try block
TryResult(success, status, attempts, t) ==
    [success |-> success, statusCode |-> {status}, attempts |-> attempts,
     deliveredAt |-> IF success THEN {t} ELSE {},
     errorMessage |-> IF success THEN {} ELSE {"HTTP " \o ToString(status)}]

\* the result returned from the catch block
CatchResult(attempts, message) ==
    [success |-> FALSE, statusCode |-> {}, attempts |-> attempts,
     deliveredAt |-> {}, errorMessage |-> {message}]

\* After the select the invocation never reads the store again: what it writes
\* depends on its local attempts, on the outcome of the fetch and on the clock at
\* the write.  The fetch (30 s at most) therefore ends in the same step as the
\* update that follows it; other invocations interleave between the select and
\* this step.

\* what an ended invocation leaves behind for its caller
Ended(c, response, error, result) ==
    [op |-> "deliverWebhook", id |-> c.id, attempts |-> c.attempts, posts |-> 1,
     response |-> response, error |-> error, storeError |-> FALSE,
     thrown |-> FALSE, result |-> result]

\* the fetch resolves with a response: update in the try block, return
deliverWebhook_response(c, status) ==
    /\ BagIn(c, dw)
    /\ LET success == Ok(status)
       IN  /\ webhookEvents' = UpdateSet(webhookEvents, c.id,
                                         TryValues(success, c.attempts, now))
           /\ ret' = {Ended(c, {status}, {},
                            {TryResult(success, status, c.attempts, now)})}
    /\ dw' = dw (-) SetToBag({c})
    /\ UNCHANGED <<now, started, overlapped, ledgerVars, backoffVars, restVars>>

\* the fetch rejects (network failure, timeout): update in the catch block, return
deliverWebhook_reject(c, message) ==
    /\ BagIn(c, dw)
    /\ webhookEvents' = UpdateSet(webhookEvents, c.id, CatchValues(c.attempts, now))
    /\ ret' = {Ended(c, {}, {message}, {CatchResult(c.attempts, message)})}
    /\ dw' = dw (-) SetToBag({c})
    /\ UNCHANGED <<now, started, overlapped, ledgerVars, backoffVars, restVars>>

\* ------------------------------------------------------------------ store failures
\* A store call may reject (connectivity loss, constraint violation).  These
\* steps are taken only under SpecFault.

\* an invocation that ended after a store call rejected
EndedOnStoreError(e, attempts, posts, response, error, thrown, result) ==
    [op |-> "deliverWebhook", id |-> e, attempts |-> attempts, posts |-> posts,
     response |-> response, error |-> error, storeError |-> TRUE,
     thrown |-> thrown, result |-> result]

\* the select rejects: nothing catches it, the invocation throws
deliverWebhook_selectThrows(e) ==
    /\ BagCardinality(dw) < MaxInv
    /\ e \in EventIds => Sum(started) < MaxInvocations
    /\ started' = IF e \in EventIds THEN [started EXCEPT ![e] = @ + 1] ELSE started
    /\ ret' = {EndedOnStoreError(e, 0, 0, {}, {}, TRUE, {})}
    /\ UNCHANGED <<webhookEvents, now, dw, overlapped, ledgerVars, backoffVars, restVars>>

\* a response arrived and the update in the try block rejects: the catch block
\* takes the store error for a delivery error, records a failure and returns
deliverWebhook_tryUpdateThrows(c, status) ==
    /\ BagIn(c, dw)
    /\ webhookEvents' = UpdateSet(webhookEvents, c.id, CatchValues(c.attempts, now))
    /\ ret' = {EndedOnStoreError(c.id, c.attempts, 1, {status}, {}, FALSE,
                                 {CatchResult(c.attempts, StoreMessage)})}
    /\ dw' = dw (-) SetToBag({c})
    /\ UNCHANGED <<now, started, overlapped, ledgerVars, backoffVars, restVars>>

\* the update in the catch block rejects, after the fetch rejected or after the
\* update in the try block did: the invocation throws
deliverWebhook_catchUpdateThrows(c, response, error) ==
    /\ BagIn(c, dw)
    /\ ret' = {EndedOnStoreError(c.id, c.attempts, 1, response, error, TRUE, {})}
    /\ dw' = dw (-) SetToBag({c})
    /\ UNCHANGED <<webhookEvents, now, started, overlapped, ledgerVars, backoffVars, restVars>>

\* the outcomes of a fetch: a response or a thrown error
FetchOutcomes ==
    {<<{s}, {}>> : s \in StatusCodes} \cup {<<{}, {m}>> : m \in TransportMessages}

\* ------------------------------------------------------------------ updateOrderStatus
MissingOrder == 0     \* an order id no row has

\* a JavaScript truthy optional string: neither undefined nor ''
Truthy(opt) == opt # {} /\ opt # {""}

UpdateOrderStatusInputs ==
    [orderId : OrderIds \cup {MissingOrder}, status : Statuses,
     processorOrderId : OptString("po_1"),
     processorTransactionId : OptString("txn_1")]

\* the values of the update with processorOrderId always in the SET clause
OrderValues_setsProcessorOrderId(input, t) ==
    [status |-> input.status, updatedAt |-> {t},
     processorOrderId |-> IF Truthy(input.processorOrderId)
                          THEN input.processorOrderId ELSE {}]

\* the values of the update of the order
OrderValues(input, t) ==
    [status |-> input.status, updatedAt |-> {t}]
    @@ (IF Truthy(input.processorOrderId)
        THEN [processorOrderId |-> input.processorOrderId] ELSE <<>>)

\* the inserted transaction with its status not derived from the order status
TransactionValues_alwaysSuccess(call, input, order) ==
    [call |-> call,
     orderId |-> input.orderId,
     type |-> IF input.status = "captured" THEN "capture" ELSE "authorization",
     amount |-> order.amount,
     status |-> "success",
     processorTransactionId |-> input.processorTransactionId]

\* the values of the inserted transaction
TransactionValues(call, input, order) ==
    [call |-> call,
     orderId |-> input.orderId,
     type |-> IF input.status = "captured" THEN "capture"
              ELSE IF input.status = "authorized" THEN "authorization"
              ELSE "authorization",
     amount |-> order.amount,
     status |-> IF input.status = "failed" THEN "failed" ELSE "success",
     processorTransactionId |-> input.processorTransactionId]

\* what the invocation still reads of its input after the first statement
Locals(input) ==
    [orderId |-> input.orderId, status |-> input.status,
     processorTransactionId |-> input.processorTransactionId]

\* the first statement left out when a transaction is to be recorded
updateOrderStatus_update_skipped(input) ==
    /\ calls < MaxCalls
    /\ calls' = calls + 1
    /\ IF Truthy(input.processorTransactionId)
       THEN /\ uo' = uo \cup {[call |-> calls + 1, input |-> Locals(input),
                               pc |-> "select", order |-> {}]}
            /\ UNCHANGED <<orders, applied>>
       ELSE /\ orders' = UpdateSet(orders, input.orderId, OrderValues(input, now))
            /\ applied' = applied \cup {calls + 1}
            /\ uo' = uo
    /\ UNCHANGED <<transactions, crashed, now, ret, webhookVars, backoffVars, restVars>>

\* first statement: update the order; without a transaction id, return
updateOrderStatus_update(input) ==
    /\ calls < MaxCalls
    /\ calls' = calls + 1
    /\ orders' = UpdateSet(orders, input.orderId, OrderValues(input, now))
    /\ IF Truthy(input.processorTransactionId)
       THEN uo' = uo \cup {[call |-> calls + 1, input |-> Locals(input),
                            pc |-> "select", order |-> {}]}
       ELSE uo' = uo
    /\ applied' = applied \cup {calls + 1}
    /\ UNCHANGED <<transactions, crashed, now, ret, webhookVars, backoffVars, restVars>>

\* the re-read without the test for an empty result: the insert always follows
updateOrderStatus_select_unchecked(c) ==
    /\ c \in uo /\ c.pc = "select"
    /\ uo' = (uo \ {c}) \cup
             {[c EXCEPT !.pc = "insert",
                        !.order = {IF c.input.orderId \in DOMAIN orders
                                   THEN orders[c.input.orderId]
                                   ELSE InitialOrder(MissingOrder)}]}
    /\ UNCHANGED <<orders, transactions, calls, applied, crashed, now, ret, webhookVars,
                   backoffVars, restVars>>

\* re-read the order; when no row matches, return
updateOrderStatus_select(c) ==
    /\ c \in uo /\ c.pc = "select"
    /\ IF c.input.orderId \in DOMAIN orders
       THEN uo' = (uo \ {c}) \cup {[c EXCEPT !.pc = "insert",
                                          !.order = {orders[c.input.orderId]}]}
       ELSE uo' = uo \ {c}
    /\ UNCHANGED <<orders, transactions, calls, applied, crashed, now, ret, webhookVars,
                   backoffVars, restVars>>

\* insert the transaction and return
updateOrderStatus_insert(c) ==
    /\ c \in uo /\ c.pc = "insert"
    /\ transactions' = transactions \cup
           {TransactionValues(c.call, c.input, CHOOSE o \in c.order : TRUE)}
    /\ uo' = uo \ {c}
    /\ UNCHANGED <<orders, calls, applied, crashed, now, ret, webhookVars, backoffVars,
                   restVars>>

\* the worker dies, or the store or the activity's 30 s timeout fails the
\* invocation, after the update of the order and before the insert
updateOrderStatus_crash(c) ==
    /\ c \in uo
    /\ uo' = uo \ {c}
    /\ crashed' = crashed \cup {[call |-> c.call, input |-> c.input, pc |-> c.pc]}
    /\ UNCHANGED <<orders, transactions, calls, applied, now, ret, webhookVars,
                   backoffVars, restVars>>

\* ------------------------------------------------------------------ the re-invoking caller
\* The caller of the claim on termination: it invokes deliverWebhook for a
\* stored event whose status is 'pending' while no invocation for that event
\* is in flight.  The invocation is deliverWebhook_read without the budget of
\* invocations; so that the retry loop has finitely many states the counter is
\* kept exactly up to MaxStored and held there (the code compares it with 5
\* only).
deliverWebhook_reinvoked(e) ==
    /\ e \in DOMAIN webhookEvents
    /\ webhookEvents[e].status = "pending"
    /\ \A c \in BagToSet(dw) : c.id # e
    /\ dw' = dw (+) SetToBag({[id |-> e,
                               attempts |-> IF StoredAttempts(e) + 1 > MaxStored
                                            THEN MaxStored
                                            ELSE StoredAttempts(e) + 1]})
    /\ ret' = {}
    /\ UNCHANGED <<webhookEvents, started, overlapped, now, ledgerVars, backoffVars,
                   restVars>>

\* the invocation in flight for event e ends: the fetch resolves, rejects or
\* runs into its 30 s timeout, and the update that follows is awaited
deliverWebhook_ends(e) ==
    \E c \in BagToSet(dw) :
        /\ c.id = e
        /\ \/ \E s \in StatusCodes : deliverWebhook_response(c, s)
           \/ \E m \in TransportMessages : deliverWebhook_reject(c, m)

\* ------------------------------------------------------------------ lookups
\* JSON.parse on the texts of the alphabet: '{}' is the empty object
JsonParse(text) ==
    IF text = <<"{", "}">> THEN [thrown |-> {}, value |-> {<<>>}]
    ELSE [thrown |-> {"SyntaxError"}, value |-> {}]

\* a lookup that returned result (null is {})
Found(op, key, result) ==
    [op |-> op, key |-> key, thrown |-> {}, result |-> result]
\* a lookup that threw
Failed(op, key, name) ==
    [op |-> op, key |-> key, thrown |-> {name}, result |-> {}]

\* value || null
OrNull(opt) == IF Truthy(opt) THEN opt ELSE {}

\* getProcessorConfig: null when the select matches no row; else the
\* credentials of the first row returned, decrypted and parsed
getProcessorConfig(merchantId, processor) ==
    LET config == {c \in processorConfigs :
                      c.merchantId = merchantId /\ c.processor = processor}
        key == <<merchantId, processor>>
    IN  /\ IF config = {}
           THEN ret' = {Found("getProcessorConfig", key, {})}
           ELSE \E c \in config :
                   LET text == decrypt(c.credentialsEncrypted)
                   IN  IF text.thrown # {}
                       THEN ret' = {Failed("getProcessorConfig", key,
                                           CHOOSE n \in text.thrown : TRUE)}
                       ELSE LET credentials == JsonParse(CHOOSE t \in text.text : TRUE)
                            IN  IF credentials.thrown # {}
                                THEN ret' = {Failed("getProcessorConfig", key,
                                                    "SyntaxError")}
                                ELSE ret' = {Found("getProcessorConfig", key,
                                                {[merchantId |-> merchantId,
                                                  processor |-> processor,
                                                  testMode |-> c.testMode,
                                                  credentials |-> credentials.value]})}
        /\ UNCHANGED <<webhookVars, ledgerVars, backoffVars, restVars, now>>

\* getOrder: order[0] || null
getOrder(orderId) ==
    /\ ret' = {Found("getOrder", orderId,
                     IF orderId \in DOMAIN orders THEN {orders[orderId]} ELSE {})}
    /\ UNCHANGED <<webhookVars, ledgerVars, backoffVars, restVars, now>>

\* the webhook fields read without the optional chaining
WebhookOf_unchained(op, key, merchant) ==
    IF merchant = {} THEN Failed(op, key, "TypeError")
    ELSE LET m == CHOOSE x \in merchant : TRUE
         IN  Found(op, key, {[url |-> OrNull(m.webhookUrl),
                              secret |-> OrNull(m.webhookSecret)]})

\* { url: merchant[0]?.webhookUrl || null, secret: merchant[0]?.webhookSecret || null }
WebhookOf(op, key, merchant) ==
    IF merchant = {} THEN Found(op, key, {[url |-> {}, secret |-> {}]})
    ELSE LET m == CHOOSE x \in merchant : TRUE
         IN  Found(op, key, {[url |-> OrNull(m.webhookUrl),
                              secret |-> OrNull(m.webhookSecret)]})

getMerchantWebhookUrl(merchantId) ==
    /\ ret' = {WebhookOf("getMerchantWebhookUrl", merchantId,
                         IF merchantId \in DOMAIN merchants
                         THEN {merchants[merchantId]} ELSE {})}
    /\ UNCHANGED <<webhookVars, ledgerVars, backoffVars, restVars, now>>

\* ------------------------------------------------------------------ deliverWebhook: the request
\* payloads: key/value pairs of strings, in order
Payloads ==
    {<<>>,
     <<<<"event", "order.captured">>>>,
     <<<<"event", "order.failed">>>>,
     <<<<"event", "order.captured">>, <<"orderId", "ord_1">>>>,
     <<<<"event", "order.failed">>, <<"orderId", "ord_1">>>>}
\* the webhookSecret argument: undefined, '', or a secret
Secrets == {{}, {""}, {"whsec_1"}, {"whsec_2"}}

\* JSON.stringify(payload)
Stringify(payload) ==
    LET RECURSIVE Members(_)
        Members(i) ==
            IF i > Len(payload) THEN ""
            ELSE (IF i > 1 THEN "," ELSE "")
                 \o "\"" \o payload[i][1] \o "\":\"" \o payload[i][2] \o "\""
                 \o Members(i + 1)
    IN  "{" \o Members(1) \o "}"

\* createHmac('sha256', secret).update(message).digest('hex'), uninterpreted
Hmac(secret, message) == "hmac-sha256(" \o secret \o "," \o message \o ")"

\* the request with the signature computed over the body alone
RequestOf_signsBody(webhookEventId, webhookSecret, payload, t) ==
    LET body == Stringify(payload)
        headers == [h \in {"Content-Type", "X-Loop-Event-Id", "X-Loop-Timestamp"} |->
                       IF h = "Content-Type" THEN "application/json"
                       ELSE IF h = "X-Loop-Event-Id" THEN ToString(webhookEventId)
                       ELSE ToString(t)]
    IN  [method |-> "POST",
         headers |-> IF Truthy(webhookSecret)
                     THEN ("X-Loop-Signature" :>
                               ("v1=" \o Hmac(CHOOSE k \in webhookSecret : TRUE, body)))
                          @@ headers
                     ELSE headers,
         body |-> body]

\* the request deliverWebhook POSTs at time t: the signature header is added
\* when webhookSecret is truthy, over the timestamp header's value and the body
RequestOf(webhookEventId, webhookSecret, payload, t) ==
    LET body == Stringify(payload)
        headers == [h \in {"Content-Type", "X-Loop-Event-Id", "X-Loop-Timestamp"} |->
                       IF h = "Content-Type" THEN "application/json"
                       ELSE IF h = "X-Loop-Event-Id" THEN ToString(webhookEventId)
                       ELSE ToString(t)]
        timestamp == headers["X-Loop-Timestamp"]
        signaturePayload == timestamp \o "." \o body
    IN  [method |-> "POST",
         headers |-> IF Truthy(webhookSecret)
                     THEN ("X-Loop-Signature" :>
                               ("v1=" \o Hmac(CHOOSE k \in webhookSecret : TRUE,
                                              signaturePayload)))
                          @@ headers
                     ELSE headers,
         body |-> body]

\* deliverWebhook up to its fetch: what it was given and what it sends
deliverWebhook_request(e, webhookSecret, payload) ==
    /\ request' = {[webhookEventId |-> e, webhookSecret |-> webhookSecret,
                    payload |-> payload,
                    sent |-> RequestOf(e, webhookSecret, payload, now)]}
    /\ ret' = {}
    /\ UNCHANGED <<webhookVars, ledgerVars, backoffVars, lookupVars, cryptoVars, now>>

\* ------------------------------------------------------------------ getRetryDelay applied
getRetryDelay_call(a, b) ==
    /\ delayIn = <<>>
    /\ delayIn' = <<a, b>>
    /\ delayOut' = <<getRetryDelay(a), getRetryDelay(b)>>
    /\ UNCHANGED <<webhookVars, ledgerVars, restVars, now, ret>>

\* ------------------------------------------------------------------ encrypt and decrypt applied
encrypt_call(text, iv) ==
    /\ sealed = {}
    /\ sealed' = {[text |-> text, iv |-> iv, envelope |-> encrypt(text, iv)]}
    /\ UNCHANGED <<opened, webhookVars, ledgerVars, backoffVars, lookupVars, signVars,
                   now, ret>>

decrypt_call(input) ==
    /\ opened = {}
    /\ opened' = {[input |-> input, result |-> decrypt(input)]}
    /\ UNCHANGED <<sealed, webhookVars, ledgerVars, backoffVars, lookupVars, signVars,
                   now, ret>>

\* ------------------------------------------------------------------ specifications
\* deliverWebhook and createWebhookEvent, invocations overlapping, the store reliable
Next ==
    \/ Tick
    \/ \E e \in EventIds : createWebhookEvent(e)
    \/ \E e \in DOMAIN webhookEvents \cup {MissingId} : deliverWebhook_read(e)
    \/ \E c \in BagToSet(dw), s \in StatusCodes : deliverWebhook_response(c, s)
    \/ \E c \in BagToSet(dw), m \in TransportMessages : deliverWebhook_reject(c, m)

Spec == Init /\ [][Next]_vars

\* the same, with store calls that may reject
NextFault ==
    \/ Next
    \/ \E e \in DOMAIN webhookEvents \cup {MissingId} : deliverWebhook_selectThrows(e)
    \/ \E c \in BagToSet(dw), s \in StatusCodes : deliverWebhook_tryUpdateThrows(c, s)
    \/ \E c \in BagToSet(dw), o \in FetchOutcomes :
          deliverWebhook_catchUpdateThrows(c, o[1], o[2])

SpecFault == Init /\ [][NextFault]_vars

\* updateOrderStatus, invocations overlapping, the store reliable
NextLedger ==
    \/ Tick
    \/ \E input \in UpdateOrderStatusInputs : updateOrderStatus_update(input)
    \/ \E c \in uo : updateOrderStatus_select(c)
    \/ \E c \in uo : updateOrderStatus_insert(c)

SpecLedger == Init /\ [][NextLedger]_vars

\* the same, with invocations that end between two of their statements
NextLedgerCrash ==
    \/ NextLedger
    \/ \E c \in uo : updateOrderStatus_crash(c)

SpecLedgerCrash == Init /\ [][NextLedgerCrash]_vars

\* deliverWebhook under the re-invoking caller: the caller is weakly fair to
\* every event, and every invocation ends; which answers the endpoint gives is
\* left open
NextRetry ==
    \/ Tick
    \/ \E e \in EventIds : createWebhookEvent(e)
    \/ \E e \in EventIds : deliverWebhook_reinvoked(e)
    \/ \E e \in EventIds : deliverWebhook_ends(e)

SpecRetry ==
    /\ Init /\ [][NextRetry]_vars
    /\ \A e \in EventIds : WF_vars(deliverWebhook_reinvoked(e))
    /\ \A e \in EventIds : WF_vars(deliverWebhook_ends(e))

\* getRetryDelay applied to pairs of attempt numbers
NextBackoff == \E a \in 1..MaxAttempt, b \in 1..MaxAttempt : getRetryDelay_call(a, b)

SpecBackoff == Init /\ [][NextBackoff]_vars

\* encrypt applied to a text, then decrypt applied to what encrypt returned or to
\* a string made from it
NextCrypto ==
    \/ \E text \in Texts, iv \in Ivs : encrypt_call(text, iv)
    \/ \E x \in sealed : \E input \in DecryptInputs(x.envelope) : decrypt_call(input)

SpecCrypto == Init /\ [][NextCrypto]_vars

\* the three reads, applied to stored and to absent keys
NextLookup ==
    \/ \E m \in MerchantIds \cup {MissingMerchant}, p \in Processors :
          getProcessorConfig(m, p)
    \/ \E o \in OrderIds \cup {MissingOrder} : getOrder(o)
    \/ \E m \in MerchantIds \cup {MissingMerchant} : getMerchantWebhookUrl(m)

SpecLookup == InitLookup /\ [][NextLookup]_vars

\* the requests deliverWebhook builds as time passes
NextSign ==
    \/ Tick
    \/ \E e \in EventIds \cup {MissingId}, k \in Secrets, p \in Payloads :
          deliverWebhook_request(e, k, p)

SpecSign == Init /\ [][NextSign]_vars

\* ------------------------------------------------------------------ claims
\* the stored row of the event an ended invocation was for
RowOf(r) == webhookEvents[r.id]
Stored(r) == r.op = "deliverWebhook" /\ r.id \in DOMAIN webhookEvents
GotResponse(r) == r.op = "deliverWebhook" /\ r.response # {}
Got2xx(r) == GotResponse(r) /\ \A s \in r.response : Ok(s)
GotNon2xx(r) == GotResponse(r) /\ \A s \in r.response : ~Ok(s)
PostThrew(r) == r.op = "deliverWebhook" /\ r.error # {}

\* invocations for event e in flight, and invocations for it that have ended
\* (with the store reliable each of them has written the event)
InFlight(e) ==
    Sum([c \in {x \in BagToSet(dw) : x.id = e} |-> CopiesIn(c, dw)])
Completed(e) == started[e] - InFlight(e)

\* C1: an invocation whose POST got a 2xx response leaves the event delivered,
\* with deliveredAt set and nextRetryAt null, and returns success = true with the
\* status code, whatever the earlier attempts stored.
C1_SuccessClearsRetry ==
    \A r \in ret :
        Got2xx(r) /\ Stored(r) =>
            /\ RowOf(r).status = "delivered"
            /\ RowOf(r).deliveredAt # {}
            /\ RowOf(r).nextRetryAt = {}
            /\ \A res \in r.result : res.success /\ res.statusCode = r.response

\* C2: once the stored status of an event is 'delivered' or 'failed', no step
\* changes it.
C2_TerminalStatusKept ==
    [][\A e \in DOMAIN webhookEvents :
          webhookEvents[e].status \in {"delivered", "failed"}
              => webhookEvents'[e].status = webhookEvents[e].status]_vars

\* C3: an invocation whose POST threw returns instead of throwing; it stores
\* 'failed' when its attempt number is >= 5 and otherwise 'pending' with
\* nextRetryAt = now + delay(attempt number); it returns success = false with the
\* caught error's message and no status code.  When the invocations of the event
\* ran one after another the attempt number counts every earlier invocation,
\* however it ended.
C3_TransportErrorRecorded ==
    \A r \in ret :
        PostThrew(r) =>
            /\ ~r.thrown
            /\ r.result = {[success |-> FALSE, statusCode |-> {}, attempts |-> r.attempts,
                            deliveredAt |-> {}, errorMessage |-> r.error]}
            /\ Stored(r) =>
                /\ RowOf(r).attempts = r.attempts
                /\ r.attempts >= 5 => RowOf(r).status = "failed"
                /\ r.attempts < 5 =>
                      /\ RowOf(r).status = "pending"
                      /\ RowOf(r).nextRetryAt = {now + getRetryDelay(r.attempts)}
                /\ ~overlapped[r.id] => r.attempts = started[r.id]

C3_Witness ==
    \E r \in ret : \E e \in DOMAIN webhookEvents :
        /\ PostThrew(r) /\ r.id = e /\ r.attempts >= 5
        /\ webhookEvents[e].status = "failed" /\ ~overlapped[e]

\* C4: an invocation with attempt number >= 5 whose POST threw leaves the event
\* 'failed' with nextRetryAt null.
C4_FailedHasNoRetryTime ==
    \A r \in ret :
        PostThrew(r) /\ r.attempts >= 5 /\ Stored(r) =>
            RowOf(r).status = "failed" /\ RowOf(r).nextRetryAt = {}

\* C5: an invocation whose POST got a non-2xx response leaves the event 'pending'
\* (never 'failed') for every attempt number, with lastAttemptAt stamped and
\* nextRetryAt = now + delay(attempt number), and returns success = false with the
\* status code and the message 'HTTP <code>'.
C5_Non2xxAlwaysRetries ==
    \A r \in ret :
        GotNon2xx(r) =>
            /\ ~r.thrown
            /\ \A res \in r.result :
                  /\ ~res.success
                  /\ res.statusCode = r.response
                  /\ res.attempts = r.attempts
                  /\ 500 \in r.response => res.errorMessage = {"HTTP 500"}
            /\ r.result # {}
            /\ Stored(r) =>
                  /\ RowOf(r).status = "pending"
                  /\ RowOf(r).attempts = r.attempts
                  /\ RowOf(r).lastAttemptAt = {now}
                  /\ RowOf(r).nextRetryAt = {now + getRetryDelay(r.attempts)}

C5_Witness ==
    \E r \in ret :
        /\ GotNon2xx(r) /\ Stored(r) /\ r.attempts >= 5
        /\ RowOf(r).status = "pending"

\* C6: when the invocations of an existing event run one after another, the n-th
\* of them makes one POST, returns attempts = n and leaves the stored counter at
\* n, on the 2xx, the non-2xx and the exception path alike.
C6_OneAttemptPerInvocation ==
    \A r \in ret :
        Stored(r) /\ ~overlapped[r.id] /\ ~r.thrown =>
            /\ r.posts = 1
            /\ \A res \in r.result : res.attempts = started[r.id]
            /\ r.result # {}
            /\ RowOf(r).attempts = started[r.id]

C6_Witness ==
    \E r \in ret :
        /\ Stored(r) /\ ~overlapped[r.id] /\ started[r.id] >= 3
        /\ RowOf(r).attempts = started[r.id]

\* C7: delay(attempt) = min(60000 * 2^(attempt-1), 86400000) for attempt >= 1;
\* delay(1) = 60000, delay(5) = 960000, delay(30) = 86400000; the delay is
\* non-decreasing in attempt and never exceeds 86400000.  (60000 * p exceeds
\* 86400000 exactly when p exceeds 1440.)
C7_BackoffDelay ==
    delayIn # <<>> =>
        LET a == delayIn[1]
            b == delayIn[2]
            p == 2 ^ (a - 1)
        IN  /\ p <= 1440 => delayOut[1] = 60000 * p
            /\ p > 1440 => delayOut[1] = 86400000
            /\ a = 1 => delayOut[1] = 60000
            /\ a = 5 => delayOut[1] = 960000
            /\ a = 30 => delayOut[1] = 86400000
            /\ delayOut[1] <= 86400000
            /\ a <= b => delayOut[1] <= delayOut[2]

C7_Witness == delayIn = <<5, 30>> /\ delayOut = <<960000, 86400000>>

\* C8: a store error raised while deliverWebhook runs ends the invocation with an
\* error: the invocation never returns a result after one, and so never reports
\* a store failure as a delivery failure.
C8_StoreErrorsPropagate ==
    \A r \in ret : r.op = "deliverWebhook" /\ r.storeError => r.thrown /\ r.result = {}

\* C9: an updateOrderStatus invocation for an existing order with a transaction
\* id inserts exactly one transaction, in its last step and in no other: for that
\* order, with the order's amount, type 'capture' for status 'captured' and
\* 'authorization' otherwise, status 'failed' for status 'failed' and 'success'
\* otherwise; an invocation without a transaction id returns from its first step
\* and inserts none.  (A step that changes calls is the first step of an
\* invocation; the invocation has returned from it when uo is unchanged.  A step
\* that takes c out of uo is the step of invocation c at its pc.)
C9_ExactlyOneTransaction ==
    [][/\ calls' # calls =>
             /\ transactions' = transactions
             /\ uo' = uo =>
                    \A input \in [orderId : DOMAIN orders, status : Statuses,
                                   processorOrderId : OptString("po_1"),
                                   processorTransactionId : {{"txn_1"}}] :
                        ~updateOrderStatus_update(input)
             /\ \A c \in uo' \ uo :
                    /\ Truthy(c.input.processorTransactionId)
                    /\ c.call = calls' /\ c.pc = "select"
       /\ \A c \in uo \ uo' :
             c.input.orderId \in DOMAIN orders =>
                 /\ c.pc = "select" =>
                        /\ transactions' = transactions
                        /\ \E d \in uo' \ uo : d.call = c.call /\ d.pc = "insert"
                 /\ c.pc = "insert" =>
                        LET mine == {t \in transactions' : t.call = c.call}
                        IN  /\ transactions' \ transactions = mine
                            /\ transactions \subseteq transactions'
                            /\ Cardinality(mine) = 1
                            /\ \A t \in mine :
                                  /\ t.orderId = c.input.orderId
                                  /\ t.amount = orders[c.input.orderId].amount
                                  /\ t.type = IF c.input.status = "captured"
                                              THEN "capture" ELSE "authorization"
                                  /\ t.status = IF c.input.status = "failed"
                                                THEN "failed" ELSE "success"
                                  /\ t.processorTransactionId = c.input.processorTransactionId]_vars

C9_Witness ==
    \E t \in transactions, u \in transactions :
        /\ t.call # u.call /\ t.orderId = u.orderId
        /\ t.type = "capture" /\ t.status = "success"
        /\ u.type = "authorization" /\ u.status = "failed"
        /\ t.amount = orders[t.orderId].amount

\* C10: updateOrderStatus with an order id that no row has changes no order and
\* inserts no transaction in any of its steps, and returns from the re-read at
\* the latest, also when a transaction id is given.
C10_UnknownOrderIsNoOp ==
    [][/\ calls' # calls /\ (orders' # orders \/ transactions' # transactions) =>
             \A input \in [orderId : {MissingOrder}, status : Statuses,
                            processorOrderId : OptString("po_1"),
                            processorTransactionId : OptString("txn_1")] :
                 ~updateOrderStatus_update(input)
       /\ \A c \in uo :
             c.input.orderId \notin DOMAIN orders =>
                 /\ c.pc = "select"
                 /\ updateOrderStatus_select(c) =>
                        orders' = orders /\ transactions' = transactions /\ uo' = uo \ {c}]_vars

C10_Witness ==
    /\ \E c \in uo : c.input.orderId = MissingOrder /\ c.pc = "select"
    /\ orders = [o \in OrderIds |-> InitialOrder(o)]
    /\ transactions = {}

C13_MalformedRejected ==
    \A o \in opened :
        Len(Split(o.input, ":")) # 3 => o.result.thrown # {} /\ o.result.text = {}

\* C14: the envelope encrypt returns splits on ':' into exactly the three pieces
\* joined (iv, tag and ciphertext in hex), for every text and every iv drawn,
\* and decrypt applied to it returns the text.
C14_RoundTrip ==
    /\ \A x \in sealed :
          LET parts == Split(x.envelope, ":")
              encrypted == Cipher(x.iv, Utf8Encode(x.text))
          IN  /\ Len(parts) = 3
              /\ parts[1] = ToHex(x.iv) /\ FromHex(parts[1]) = x.iv
              /\ parts[2] = ToHex(AuthTag(x.iv, encrypted))
              /\ parts[3] = ToHex(encrypted) /\ FromHex(parts[3]) = encrypted
              /\ decrypt(x.envelope) = [thrown |-> {}, text |-> {x.text}]
    /\ \A x \in sealed, o \in opened :
          o.input = x.envelope => o.result.thrown = {} /\ o.result.text = {x.text}

C14_Witness ==
    \E x \in sealed, o \in opened :
        /\ o.input = x.envelope
        /\ Len(x.text) = 2 /\ x.text[1] = "e-acute" /\ x.iv[1] = 255
        /\ o.result.text = {x.text}

\* C12: a read of an absent row ends without an error and leaves the store as
\* it was: getProcessorConfig returns null when no config matches the merchant
\* and processor, getOrder returns null when no order has the id, and
\* getMerchantWebhookUrl returns url null and secret null when no merchant has
\* the id.
C12_AbsentIsNull ==
    [][\A r \in ret' :
          /\ r.op \in {"getProcessorConfig", "getOrder", "getMerchantWebhookUrl"} =>
                <<webhookEvents, orders, transactions, merchants, processorConfigs>>'
                    = <<webhookEvents, orders, transactions, merchants, processorConfigs>>
          /\ ( /\ r.op = "getProcessorConfig"
               /\ \A c \in processorConfigs :
                     <<c.merchantId, c.processor>> # r.key )
             => r.thrown = {} /\ r.result = {}
          /\ (r.op = "getOrder" /\ r.key \notin DOMAIN orders)
             => r.thrown = {} /\ r.result = {}
          /\ (r.op = "getMerchantWebhookUrl" /\ r.key \notin DOMAIN merchants)
             => r.thrown = {} /\ r.result = {[url |-> {}, secret |-> {}]}]_vars

C12_Witness ==
    /\ processorConfigs # {}
    /\ \E r \in ret :
          /\ r.op = "getProcessorConfig"
          /\ r.key[1] \in DOMAIN merchants
          /\ \A c \in processorConfigs : <<c.merchantId, c.processor>> # r.key
          /\ r.thrown = {} /\ r.result = {}

\* C15: the request carries the signature header exactly when a webhook secret
\* is given; its value is 'v1=' followed by the hex HMAC-SHA256, keyed by the
\* secret, of '<timestamp>.<body>', with the timestamp the value of the
\* timestamp header of that request and the body the body of that request.
C15_SignatureHeader ==
    \A q \in request :
        LET headers == q.sent.headers
        IN  /\ "X-Loop-Signature" \in DOMAIN headers <=> Truthy(q.webhookSecret)
            /\ "X-Loop-Timestamp" \in DOMAIN headers
            /\ q.sent.body = Stringify(q.payload)
            /\ "X-Loop-Signature" \in DOMAIN headers =>
                  \E k \in q.webhookSecret :
                      headers["X-Loop-Signature"] =
                          "v1=" \o Hmac(k, headers["X-Loop-Timestamp"] \o "." \o q.sent.body)

C15_Witness ==
    \E q \in request :
        /\ q.webhookSecret = {"whsec_2"} /\ Len(q.payload) = 2
        /\ q.sent.headers["X-Loop-Timestamp"] = "1"
        /\ "X-Loop-Signature" \in DOMAIN q.sent.headers

\* C16 as stated: after k ended invocations on an event created with attempts 0
\* the stored counter is k, overlapping invocations included, and no write
\* lowers the stored counter.
C16_CounterCountsInvocations ==
    [][\A e \in DOMAIN webhookEvents' :
          /\ webhookEvents'[e].attempts = Completed(e)'
          /\ e \in DOMAIN webhookEvents =>
                webhookEvents'[e].attempts >= webhookEvents[e].attempts]_vars

\* C16, amended: every invocation writes the counter it read plus one.  As long as
\* no two invocations for the event have overlapped, the stored counter is the
\* number k of ended invocations, which only grows, so no write lowers it; once
\* invocations have overlapped, increments may be lost: the counter is 0 for
\* k = 0 and between 1 and k otherwise.
C16_CounterWithoutOverlap ==
    \A e \in DOMAIN webhookEvents :
        LET k == Completed(e)
            a == webhookEvents[e].attempts
        IN  /\ k = 0 => a = 0
            /\ k >= 1 => 1 <= a /\ a <= k
            /\ ~overlapped[e] => a = k

C16_Witness ==
    \E e \in DOMAIN webhookEvents :
        /\ ~overlapped[e] /\ InFlight(e) = 0
        /\ Completed(e) >= 4 /\ webhookEvents[e].attempts = Completed(e)

\* C19: in every reachable state, however createWebhookEvent and deliverWebhook
\* invocations interleave, an event with status 'failed' has a stored attempt
\* counter of at least 5.
C19_FailedAfterFiveAttempts ==
    \A e \in DOMAIN webhookEvents :
        webhookEvents[e].status = "failed" => webhookEvents[e].attempts >= 5

C19_Witness ==
    \E e \in DOMAIN webhookEvents :
        webhookEvents[e].status = "failed" /\ webhookEvents[e].attempts = 5

\* C20: in every reachable state an event with status 'pending' and at least one
\* attempt has a nextRetryAt that is not null.
C20_PendingHasRetryTime ==
    \A e \in DOMAIN webhookEvents :
        (webhookEvents[e].status = "pending" /\ webhookEvents[e].attempts >= 1)
            => webhookEvents[e].nextRetryAt # {}

C20_Witness ==
    \E e \in DOMAIN webhookEvents :
        /\ webhookEvents[e].status = "pending" /\ webhookEvents[e].attempts >= 2
        /\ webhookEvents[e].deliveredAt # {}
        /\ webhookEvents[e].nextRetryAt # {}

\* C17: the order and the transaction are written by two separate statements.
\* No transaction row exists of an invocation whose update of the order has not
\* been executed, and no invocation is past its first statement without it.
\* (The state with the order updated and no transaction row of the invocation,
\* left by an invocation that died in between, is C17_Witness.)
C17_UpdateBeforeInsert ==
    /\ \A t \in transactions : t.call \in applied
    /\ \A c \in uo \cup crashed : c.call \in applied
    /\ \A t \in transactions, c \in crashed : t.call # c.call

C17_Witness ==
    /\ uo = {}
    /\ \E c \in crashed :
          /\ Truthy(c.input.processorTransactionId)
          /\ c.input.orderId \in DOMAIN orders
          /\ c.call = calls /\ c.call \in applied
          /\ orders[c.input.orderId].status = c.input.status
          /\ orders[c.input.orderId].status # InitialOrder(c.input.orderId).status
          /\ \A t \in transactions : t.call # c.call

C21_EventuallyTerminal ==
    \A e \in EventIds :
        (e \in DOMAIN webhookEvents)
            ~> (e \in DOMAIN webhookEvents
                /\ webhookEvents[e].status \in {"delivered", "failed"})

\* C21, amended: under that caller every stored event eventually is 'delivered'
\* or 'failed', unless its attempts meet non-2xx responses again and again: from
\* every state on, the event becomes 'delivered' or 'failed' or a further
\* attempt for it is answered with a non-2xx response.
C21_TerminalUnlessNon2xx ==
    \A e \in EventIds :
        (e \in DOMAIN webhookEvents)
            ~> \/ e \in DOMAIN webhookEvents
                  /\ webhookEvents[e].status \in {"delivered", "failed"}
               \/ \E r \in ret : GotNon2xx(r) /\ r.id = e

C21_Witness ==
    \E r \in ret :
        /\ Stored(r) /\ PostThrew(r) /\ dw = EmptyBag
        /\ RowOf(r).status = "failed" /\ RowOf(r).attempts = 6
        /\ RowOf(r).deliveredAt = {}

====
